---- MODULE Spec2Model ----
(***************************************************************************)
(* Kart racing prototype: the game store (src/store/gameStore.ts), the     *)
(* shared input flags and the per-frame vehicle dynamics controller        *)
(* (src/components/carPhysics.ts) acting on a Rapier rigid body.           *)
(*                                                                         *)
(* Numbers are fixed point integers:                                       *)
(*   time            milliseconds             (delta, dt)                  *)
(*   velocity        mm/s                     (linvel, forwardSpeed, ...)  *)
(*   position        mm                                                    *)
(*   angles          1/FP rad                 (steering, yaw, angvel /s)   *)
(*   factors         1/FP                     (steerLerp, dampFactor, ...) *)
(*   acceleration    0.1 m/s^2                                             *)
(*   impulses        0.01 N s                                              *)
(*   boostAmount     1/1000 of a boost point  (100 points = 100000)        *)
(*   speed (km/h)    1/1000 km/h                                           *)
(* Divisions round toward zero.                                            *)
(***************************************************************************)
EXTENDS Integers, Sequences, FiniteSets, TLC

\* ------------------------------------------------------------------------
\* Fixed point arithmetic
\* ------------------------------------------------------------------------
FP == 10^4

Abs(a) == IF a < 0 THEN -a ELSE a

Min(a, b) == IF a < b THEN a ELSE b

Max(a, b) == IF a > b THEN a ELSE b

Sign(a) == IF a > 0 THEN 1 ELSE IF a < 0 THEN -1 ELSE 0

TruncDiv(a, b) == IF a >= 0 THEN a \div b ELSE -((-a) \div b)

\* number of terms after the constant one in the exponential series
ExpOrder == 12

RECURSIVE ExpSeries(_, _, _)
ExpSeries(y, k, term) ==
  IF k > ExpOrder THEN 0
  ELSE term + ExpSeries(y, k + 1, TruncDiv(term * y, (k + 1) * FP))

\* Math.exp on fixed point: Exp(y) = FP * e^(y / FP)
Exp(y) == ExpSeries(y, 0, FP)

\* ln(1000) in 1/FP
LN_1000 == 69078

\* Math.pow(0.001, dt seconds) = e^(-ln(1000) * dt), dt in ms
Pow001(dt) == Exp(-TruncDiv(LN_1000 * dt, 1000))

PI == 31416

HALF_PI == 15708

\* Taylor polynomial of the sine on [-pi/2, pi/2]
SinPoly(x) ==
  LET x2 == TruncDiv(x * x, FP)
      t3 == TruncDiv(TruncDiv(x * x2, FP), 6)
      t5 == TruncDiv(TruncDiv(t3 * x2, FP), 20)
      t7 == TruncDiv(TruncDiv(t5 * x2, FP), 42)
      t9 == TruncDiv(TruncDiv(t7 * x2, FP), 72)
  IN  x - t3 + t5 - t7 + t9

\* Math.sin for an angle in (-pi, pi]
Sin(x) ==
  IF x > HALF_PI THEN SinPoly(PI - x)
  ELSE IF x < -HALF_PI THEN SinPoly(-PI - x)
  ELSE SinPoly(x)

\* yaw as returned by Math.atan2: wrapped into (-pi, pi]
WrapAngle(x) ==
  IF x > PI THEN x - 2 * PI
  ELSE IF x <= -PI THEN x + 2 * PI
  ELSE x

\* Math.cos for an angle in (-pi, pi]
Cos(x) == Sin(WrapAngle(x + HALF_PI))

RECURSIVE SqrtSearch(_, _, _)
SqrtSearch(n, lo, hi) ==
  IF lo >= hi THEN lo
  ELSE LET mid == (lo + hi + 1) \div 2
       IN  IF mid * mid <= n THEN SqrtSearch(n, mid, hi)
           ELSE SqrtSearch(n, lo, mid - 1)

\* floor of the square root
ISqrt(n) == SqrtSearch(n, 0, 30000)

\* Math.sqrt(x ** 2 + z ** 2) of a velocity in mm/s, resolved to cm/s
Hypot(x, z) ==
  LET cx == TruncDiv(x, 10)
      cz == TruncDiv(z, 10)
  IN  10 * ISqrt(cx * cx + cz * cz)

\* ------------------------------------------------------------------------
\* Car physics constants (carPhysics.ts)
\* ------------------------------------------------------------------------
MAX_SPEED == 45

MAX_REVERSE_SPEED == 15

ACCELERATION == 8

DECELERATION == 4

BRAKE_FORCE == 35

STEERING_SPEED == 5

\* 0.8 rad
MAX_STEERING_ANGLE == (8 * FP) \div 10

\* 1.5, in tenths
BOOST_MULTIPLIER == 15

CAR_MASS == 80

\* mass given to the car's RigidBody
BODY_MASS == 500

\* Math.min(delta, 0.05)
DT_CLAMP == 50

\* boost drained per second while boosting / regenerated per second
BOOST_DRAIN == 20

BOOST_REGEN == 5

\* store: maxSpeed (km/h) and the boost range
STORE_MAX_SPEED == 80

BOOST_FULL == 100

\* store: totalLaps
TOTAL_LAPS == 3

\* GameScene: the lap timer adds 0.1 s every 100 ms
LAP_TIMER_MS == 100

\* trackData: width of the road in world units
TRACK_WIDTH == 20

\* m/s -> mm/s
MMS(v) == v * 1000


\* store units: boost points and km/h in thousandths
BoostUnits(b) == b * 1000

\* ------------------------------------------------------------------------
\* State
\* ------------------------------------------------------------------------
VARIABLES
  isPlaying,     \* store: a race is running
  isPaused,      \* store: the race is paused
  boostAmount,   \* store: boost meter
  speed,         \* store: speed shown by the HUD (km/h)
  carPosition,   \* store: position published by the controller
  carRotation,   \* store: yaw published by the controller
  gameOver,      \* store: the race is over
  lap,           \* store: current lap
  lapTimes,      \* store: times of the completed laps
  currentLapTime,\* store: time of the current lap (ms)
  bestLapTime,   \* store: best lap time (ms), NULL when none
  hasItem,       \* store: an item is held
  currentItem,   \* store: the held item, NoItem when none
  keys,          \* shared input flags w, a, s, d, space, shift
  steeringRef,   \* controller: smoothed steering angle
  localSpeed,    \* controller: React state copy of the speed
  linvel,        \* rigid body: horizontal linear velocity [x, z]
  angvel,        \* rigid body: angular velocity [x, y, z]
  rotation,      \* rigid body: orientation, a pure yaw (x and z are locked)
  translation,   \* rigid body: horizontal position [x, z]
  nframes,       \* history: rendered frames so far
  op,            \* history: the operation that produced this state
  tick,          \* history: what the last frame callback read and did
  track,         \* track module: the geometry call in progress or finished
  held           \* history: the keys and touch buttons the player holds down

vars ==
  << isPlaying, isPaused, boostAmount, speed, carPosition, carRotation,
     gameOver, lap, lapTimes, currentLapTime, bestLapTime, hasItem, currentItem,
     keys, steeringRef, localSpeed, linvel, angvel, rotation, translation,
     nframes, op, tick, track, held >>

raceVars == << gameOver, lap, lapTimes, currentLapTime, bestLapTime >>

itemVars == << hasItem, currentItem >>

telemetryVars == << boostAmount, speed, carPosition, carRotation >>

controllerVars == << steeringRef, localSpeed >>

bodyVars == << linvel, angvel, rotation, translation >>

KeyNames == {"w", "a", "s", "d", "space", "shift"}

NoKeys == [k \in KeyNames |-> FALSE]

Vec(x, z) == [x |-> x, z |-> z]

ZeroAngvel == [x |-> 0, y |-> 0, z |-> 0]

\* getTrackStart(): first centerline point, heading +Z
TrackStartPosition == Vec(MMS(-50), MMS(-55))

TrackStartYaw == 0

\* <Car position={[0, 2, 0]} />
CarSpawn == Vec(0, 0)

\* ------------------------------------------------------------------------
\* Store (gameStore.ts)
\* ------------------------------------------------------------------------
\* variant: the amount stored as given
UpdateBoostUnclamped(amount) == amount

\* updateBoost: Math.max(0, Math.min(100, amount))
UpdateBoost(amount) == Max(0, Min(BoostUnits(BOOST_FULL), amount))

\* updateSpeed: Math.max(0, Math.min(speed, maxSpeed))
UpdateSpeed(kmh) == Max(0, Min(kmh, STORE_MAX_SPEED * 1000))

\* ------------------------------------------------------------------------
\* Vehicle dynamics (useCarPhysics, the useFrame callback)
\* ------------------------------------------------------------------------
\* variant: a guard that looks at isPlaying only
FrameActiveIgnoringPause(playing, paused) == playing

\* if (!carRef.current || !isPlaying || isPaused) return;
FrameActive(playing, paused) == playing /\ ~paused

\* variant: the raw frame delta
RawDelta(delta) == delta

\* const dt = Math.min(delta, 0.05)
ClampDelta(delta) == Min(delta, DT_CLAMP)

\* getYawFromQuaternion of a pure-yaw quaternion
GetYaw(rot) == WrapAngle(rot)

Forward(yaw) == Vec(Sin(yaw), Cos(yaw))

Right(yaw) == Vec(Cos(yaw), -Sin(yaw))

\* v . u for a velocity v and a unit vector u
Dot(v, u) == TruncDiv(v.x * u.x + v.z * u.z, FP)

TargetSteering(k) ==
  IF k.d THEN MAX_STEERING_ANGLE
  ELSE IF k.a THEN -MAX_STEERING_ANGLE
  ELSE 0

\* variant: the steering snaps to its target
SteerSnap(dt) == FP

\* const steerLerp = 1 - Math.pow(0.001, dt)
SteerLerp(dt) == FP - Pow001(dt)

\* variant: the wheel turns toward the target at 20 rad/s and may pass it
SteerAtFixedRate(steer, target, dt) ==
  steer + Sign(target - steer) * 200 * dt

\* steeringRef.current += (targetSteering - steeringRef.current) * steerLerp
SmoothSteering(steer, target, dt) ==
  steer + TruncDiv((target - steer) * SteerLerp(dt), FP)

\* variant: the boost key alone decides, whatever the meter shows
BoostingOnEmpty(k, boost) == k.shift

\* keys.shift && boostAmount > 0
Boosting(k, boost) == k.shift /\ boost > 0

\* boost multiplier in tenths
BoostFactor(k, boost) == IF Boosting(k, boost) THEN BOOST_MULTIPLIER ELSE 10

\* variant: forward thrust without the speed cap
AccelerationUncapped(k, boost, forwardSpeed) ==
  IF k.w
  THEN ACCELERATION * BoostFactor(k, boost)
  ELSE IF k.s
  THEN IF forwardSpeed > 500 THEN -BRAKE_FORCE * 10
       ELSE IF forwardSpeed > -MMS(MAX_REVERSE_SPEED) THEN -ACCELERATION * 5
       ELSE 0
  ELSE 0

\* variant: reverse thrust without the reverse speed limit
AccelerationReverseUnlimited(k, boost, forwardSpeed) ==
  IF k.w
  THEN IF forwardSpeed < MAX_SPEED * 100 * BoostFactor(k, boost)
       THEN ACCELERATION * BoostFactor(k, boost)
       ELSE 0
  ELSE IF k.s
  THEN IF forwardSpeed > 500 THEN -BRAKE_FORCE * 10 ELSE -ACCELERATION * 5
  ELSE 0

\* the acceleration scalar chosen by the throttle / brake branches
Acceleration(k, boost, forwardSpeed) ==
  IF k.w
  THEN IF forwardSpeed < MAX_SPEED * 100 * BoostFactor(k, boost)
       THEN ACCELERATION * BoostFactor(k, boost)
       ELSE 0
  ELSE IF k.s
  THEN IF forwardSpeed > 500 THEN -BRAKE_FORCE * 10
       ELSE IF forwardSpeed > -MMS(MAX_REVERSE_SPEED) THEN -ACCELERATION * 5
       ELSE 0
  ELSE 0

\* variant: the damping branch taken on every frame
CoastingAlways(k) == TRUE

\* the else branch: no throttle and no brake
Coasting(k) == ~k.w /\ ~k.s

\* variant: the exponent with the opposite sign
DampFactorInverted(dt) == Exp(TruncDiv(DECELERATION * 15 * dt * FP, 100 * 1000))

\* const dampFactor = Math.exp(-DECELERATION * 0.15 * dt)
DampFactor(dt) == Exp(-TruncDiv(DECELERATION * 15 * dt * FP, 100 * 1000))

Scale(v, factor) == Vec(TruncDiv(v.x * factor, FP), TruncDiv(v.z * factor, FP))

\* RigidBody.applyImpulse: the velocity changes at once by impulse / mass
ApplyImpulse(v, imp) ==
  Vec(v.x + TruncDiv(imp.x * 10, BODY_MASS), v.z + TruncDiv(imp.z * 10, BODY_MASS))

\* const forceMag = acceleration * dt * CAR_MASS
ForceMag(acceleration, dt) == TruncDiv(acceleration * dt * CAR_MASS, 100)

\* { x: dir.x * mag, y: 0, z: dir.z * mag }
Along(dir, mag) == Vec(TruncDiv(dir.x * mag, FP), TruncDiv(dir.z * mag, FP))

\* Math.abs(acceleration) > 0.1
HasThrust(acceleration) == Abs(acceleration) > 1

\* Math.max(Math.min(speed / 15, 1) * Math.max(1 - speed / 120, 0.3), minTurnRate)
SpeedFactor(spd) ==
  Max(TruncDiv(Min(TruncDiv(spd * 10, 15), FP) * Max(FP - TruncDiv(spd, 12), 3 * 1000), FP),
      1500)

\* variant: any steering angle other than zero turns the car
TurningAnyAngle(k, currentSteering, spd) ==
  currentSteering # 0 /\ (Abs(spd) > 100 \/ k.w \/ k.s)

\* variant: the yaw rate follows the steering keys instead of the smoothed angle
TurningByKeys(k, currentSteering, spd) ==
  (k.a \/ k.d) /\ (Abs(spd) > 100 \/ k.w \/ k.s)

\* the condition under which the steering branch sets a yaw rate
Turning(k, currentSteering, spd) ==
  Abs(currentSteering) > 100 /\ (Abs(spd) > 100 \/ k.w \/ k.s)

\* the vector handed to car.setAngvel
AngularVelocity(k, currentSteering, spd, forwardSpeed) ==
  IF Turning(k, currentSteering, spd)
  THEN [x |-> 0,
        y |-> TruncDiv(-currentSteering * STEERING_SPEED * SpeedFactor(spd), FP)
                * (IF forwardSpeed >= 0 THEN 1 ELSE -1),
        z |-> 0]
  ELSE ZeroAngvel

\* Math.abs(lateralSpeed) > 0.2
Sliding(lateralSpeed) == Abs(lateralSpeed) > 200

\* keys.space ? 0.4 : 0.85, in hundredths
GripStrength(k) == IF k.space THEN 40 ELSE 85

\* const correctionForce = -lateralSpeed * gripStrength * CAR_MASS * dt
CorrectionForce(k, lateralSpeed, dt) ==
  TruncDiv(TruncDiv(-lateralSpeed * GripStrength(k), 100) * (CAR_MASS * dt), FP)

\* currentVel * (1 - 1.5 * dt)
HandbrakeFactor(dt) == FP - 15 * dt


\* everything one frame callback reads, computes and writes
Dynamics(delta, k, vel, rot, pos, steer, boost) ==
  LET dt == ClampDelta(delta)
      yaw == GetYaw(rot)
      forward == Forward(yaw)
      right == Right(yaw)
      forwardSpeed == Dot(vel, forward)
      lateralSpeed == Dot(vel, right)
      spd == Hypot(vel.x, vel.z)
      target == TargetSteering(k)
      currentSteering == SmoothSteering(steer, target, dt)
      acceleration == Acceleration(k, boost, forwardSpeed)
      drained == IF k.w /\ Boosting(k, boost)
                 THEN UpdateBoost(boost - BOOST_DRAIN * dt)
                 ELSE boost
      velCoast == IF Coasting(k) THEN Scale(vel, DampFactor(dt)) ELSE vel
      velLong == IF HasThrust(acceleration)
                 THEN ApplyImpulse(velCoast, Along(forward, ForceMag(acceleration, dt)))
                 ELSE velCoast
      velGrip == IF Sliding(lateralSpeed)
                 THEN ApplyImpulse(velLong,
                                   Along(right, CorrectionForce(k, lateralSpeed, dt)))
                 ELSE velLong
      velOut == IF k.space THEN Scale(vel, HandbrakeFactor(dt)) ELSE velGrip
      \* slerp of a pure yaw toward the same yaw: the blend leaves it in place
      rotOut == rot + TruncDiv((yaw - rot) * 3, 10)
      speedKmh == TruncDiv(Abs(forwardSpeed) * 36, 10)
      calls == (IF Coasting(k) THEN << "setLinvel" >> ELSE << >>)
               \o (IF HasThrust(acceleration) THEN << "applyImpulse" >> ELSE << >>)
               \o << "setAngvel" >>
               \o (IF Sliding(lateralSpeed) THEN << "applyImpulse" >> ELSE << >>)
               \o (IF k.space THEN << "setLinvel" >> ELSE << >>)
               \o << "setRotation" >>
  IN  [ ran |-> TRUE, delta |-> delta, dt |-> dt, keys |-> k,
        vel |-> vel, yaw |-> yaw, steer |-> steer, boost |-> boost,
        forwardSpeed |-> forwardSpeed, lateralSpeed |-> lateralSpeed,
        speed |-> spd, target |-> target, steerLerp |-> SteerLerp(dt),
        currentSteering |-> currentSteering, acceleration |-> acceleration,
        velCoast |-> velCoast, velLong |-> velLong, velGrip |-> velGrip,
        velOut |-> velOut,
        angvelOut |-> AngularVelocity(k, currentSteering, spd, forwardSpeed),
        rotOut |-> rotOut,
        speedKmh |-> speedKmh,
        position |-> pos,
        finalYaw |-> GetYaw(rotOut),
        boostOut |-> IF ~k.shift /\ boost < BoostUnits(BOOST_FULL)
                     THEN UpdateBoost(boost + BOOST_REGEN * dt)
                     ELSE drained,
        calls |-> calls ]

\* what a later frame remembers of the frame before it
Summary(t) ==
  IF t.ran
  THEN [ran |-> TRUE, keys |-> t.keys, yaw |-> t.yaw, forwardSpeed |-> t.forwardSpeed,
        speed |-> t.speed]
  ELSE [ran |-> FALSE]

\* the record kept when the frame callback returns at once
SkippedTick(delta, before) == [ran |-> FALSE, delta |-> delta, prev |-> Summary(before)]

NoTick == [ran |-> FALSE, delta |-> 0, prev |-> [ran |-> FALSE]]

\* useFrame((_, delta) => { ... })
FrameCallback(delta) ==
  IF FrameActive(isPlaying, isPaused)
  THEN /\ tick' = Dynamics(delta, keys, linvel, rotation, translation,
                           steeringRef, boostAmount) @@ [prev |-> Summary(tick)]
       /\ steeringRef' = tick'.currentSteering
       /\ linvel' = tick'.velOut
       /\ angvel' = tick'.angvelOut
       /\ rotation' = tick'.rotOut
       /\ speed' = UpdateSpeed(tick'.speedKmh)
       /\ localSpeed' = tick'.speedKmh
       /\ carPosition' = tick'.position
       /\ carRotation' = tick'.finalYaw
       /\ boostAmount' = tick'.boostOut
       /\ op' = "frame"
       /\ nframes' = nframes + 1
       /\ UNCHANGED << isPlaying, isPaused, raceVars, itemVars, keys, translation, track, held >>
  ELSE /\ tick' = SkippedTick(delta, tick)
       /\ op' = "frame"
       /\ nframes' = nframes + 1
       /\ UNCHANGED << isPlaying, isPaused, telemetryVars, raceVars, itemVars, keys,
                       controllerVars, bodyVars, track, held >>

\* The physics world advances by h ms of an unobstructed run on the flat track:
\* the pose is integrated from the velocities (rotation about Y only), and no
\* contact force acts on the car.
PhysicsStep(h) ==
  /\ rotation' = WrapAngle(rotation + TruncDiv(angvel.y * h, 1000))
  /\ translation' = Vec(translation.x + TruncDiv(linvel.x * h, 1000),
                        translation.z + TruncDiv(linvel.z * h, 1000))
  /\ op' = "physics"
  /\ UNCHANGED << isPlaying, isPaused, telemetryVars, raceVars, itemVars, keys,
                  controllerVars, linvel, angvel, nframes, tick, track, held >>


\* ------------------------------------------------------------------------
\* Store actions (gameStore.ts)
\* ------------------------------------------------------------------------
NULL == -1

NoItem == "none"

nonStoreVars ==
  << keys, controllerVars, bodyVars, nframes, tick, track, held >>

\* variant: a new race keeps the game-over mark of the last one
StartGameKeepsGameOver ==
  /\ isPlaying' = TRUE
  /\ isPaused' = FALSE
  /\ lap' = 1
  /\ lapTimes' = << >>
  /\ currentLapTime' = 0
  /\ speed' = 0
  /\ boostAmount' = BoostUnits(BOOST_FULL)
  /\ hasItem' = FALSE
  /\ currentItem' = NoItem
  /\ carPosition' = TrackStartPosition
  /\ carRotation' = TrackStartYaw
  /\ op' = "startGame"
  /\ UNCHANGED << gameOver, bestLapTime, nonStoreVars >>

StartGame ==
  /\ isPlaying' = TRUE
  /\ isPaused' = FALSE
  /\ gameOver' = FALSE
  /\ lap' = 1
  /\ lapTimes' = << >>
  /\ currentLapTime' = 0
  /\ speed' = 0
  /\ boostAmount' = BoostUnits(BOOST_FULL)
  /\ hasItem' = FALSE
  /\ currentItem' = NoItem
  /\ carPosition' = TrackStartPosition
  /\ carRotation' = TrackStartYaw
  /\ op' = "startGame"
  /\ UNCHANGED << bestLapTime, nonStoreVars >>

PauseGame ==
  /\ isPaused' = TRUE
  /\ op' = "pauseGame"
  /\ UNCHANGED << isPlaying, telemetryVars, raceVars, itemVars, nonStoreVars >>

ResumeGame ==
  /\ isPaused' = FALSE
  /\ op' = "resumeGame"
  /\ UNCHANGED << isPlaying, telemetryVars, raceVars, itemVars, nonStoreVars >>

EndGame ==
  /\ isPlaying' = FALSE
  /\ gameOver' = TRUE
  /\ op' = "endGame"
  /\ UNCHANGED << isPaused, telemetryVars, lap, lapTimes, currentLapTime,
                  bestLapTime, itemVars, nonStoreVars >>

ResetGame ==
  /\ isPlaying' = FALSE
  /\ isPaused' = FALSE
  /\ gameOver' = FALSE
  /\ lap' = 1
  /\ lapTimes' = << >>
  /\ currentLapTime' = 0
  /\ bestLapTime' = NULL
  /\ speed' = 0
  /\ boostAmount' = BoostUnits(BOOST_FULL)
  /\ hasItem' = FALSE
  /\ currentItem' = NoItem
  /\ carPosition' = TrackStartPosition
  /\ carRotation' = TrackStartYaw
  /\ op' = "resetGame"
  /\ UNCHANGED nonStoreVars

\* completeLap()
CompleteLap ==
  /\ IF lap >= TOTAL_LAPS
     THEN /\ gameOver' = TRUE
          /\ isPlaying' = FALSE
          /\ UNCHANGED << lap, lapTimes, currentLapTime, bestLapTime >>
     ELSE /\ lap' = lap + 1
          /\ lapTimes' = Append(lapTimes, currentLapTime)
          /\ currentLapTime' = 0
          /\ bestLapTime' = IF bestLapTime # NULL /\ bestLapTime # 0
                            THEN Min(bestLapTime, currentLapTime)
                            ELSE currentLapTime
          /\ UNCHANGED << gameOver, isPlaying >>
  /\ op' = "completeLap"
  /\ UNCHANGED << isPaused, telemetryVars, itemVars, nonStoreVars >>

\* variant: the time is added whatever the state of the race
UpdateLapTimeUnguarded(delta) ==
  /\ currentLapTime' = currentLapTime + delta
  /\ op' = "updateLapTime"
  /\ UNCHANGED << isPlaying, isPaused, gameOver, lap, lapTimes, bestLapTime,
                  telemetryVars, itemVars, nonStoreVars >>

\* updateLapTime(delta), delta in ms
UpdateLapTime(delta) ==
  /\ currentLapTime' = IF isPlaying /\ ~isPaused
                       THEN currentLapTime + delta
                       ELSE currentLapTime
  /\ op' = "updateLapTime"
  /\ UNCHANGED << isPlaying, isPaused, gameOver, lap, lapTimes, bestLapTime,
                  telemetryVars, itemVars, nonStoreVars >>

\* updateBoost(amount), called from outside the controller
UpdateBoostCall(amount) ==
  /\ boostAmount' = UpdateBoost(amount)
  /\ op' = "updateBoost"
  /\ UNCHANGED << isPlaying, isPaused, speed, carPosition, carRotation, raceVars,
                  itemVars, nonStoreVars >>

\* ------------------------------------------------------------------------
\* Input events (useKeyboardInput, MobileController)
\* ------------------------------------------------------------------------
SetKey(k, v) ==
  /\ keys' = [keys EXCEPT ![k] = v]
  /\ UNCHANGED << isPlaying, isPaused, telemetryVars, raceVars, itemVars,
                  controllerVars, bodyVars, nframes, tick, track >>

\* keydown of the letter or the arrow bound to k
KeyDown(k) == SetKey(k, TRUE) /\ op' = "keydown" /\ UNCHANGED held

\* keyup of the letter or the arrow bound to k
KeyUp(k) == SetKey(k, FALSE) /\ op' = "keyup" /\ UNCHANGED held

\* e.key values delivered by the browser
KeyStrings ==
  {"w", "W", "ArrowUp", "a", "A", "ArrowLeft", "s", "S", "ArrowDown",
   "d", "D", "ArrowRight", " ", "Shift", "Escape", "x"}

\* e.key.toLowerCase()
ToLowerCase(key) ==
  CASE key = "W" -> "w"
    [] key = "A" -> "a"
    [] key = "S" -> "s"
    [] key = "D" -> "d"
    [] key = "ArrowUp" -> "arrowup"
    [] key = "ArrowLeft" -> "arrowleft"
    [] key = "ArrowDown" -> "arrowdown"
    [] key = "ArrowRight" -> "arrowright"
    [] key = "Shift" -> "shift"
    [] key = "Escape" -> "escape"
    [] OTHER -> key

\* variant: the left arrow also matches the test of the right flag
KeyFlagsArrowSlip(key) ==
  {f \in KeyNames :
     \/ f = "w" /\ key \in {"w", "arrowup"}
     \/ f = "a" /\ key \in {"a", "arrowleft"}
     \/ f = "s" /\ key \in {"s", "arrowdown"}
     \/ f = "d" /\ key \in {"d", "arrowright", "arrowleft"}
     \/ f = "space" /\ key = " "
     \/ f = "shift" /\ key = "shift"}

\* the flags whose test matches the lower-cased key
KeyFlags(key) ==
  {f \in KeyNames :
     \/ f = "w" /\ key \in {"w", "arrowup"}
     \/ f = "a" /\ key \in {"a", "arrowleft"}
     \/ f = "s" /\ key \in {"s", "arrowdown"}
     \/ f = "d" /\ key \in {"d", "arrowright"}
     \/ f = "space" /\ key = " "
     \/ f = "shift" /\ key = "shift"}

SetFlags(flags, v) ==
  /\ keys' = [f \in KeyNames |-> IF f \in flags THEN v ELSE keys[f]]
  /\ UNCHANGED << isPlaying, isPaused, telemetryVars, raceVars, itemVars,
                  controllerVars, bodyVars, nframes, tick, track >>

\* window keydown listener of useKeyboardInput
HandleKeyDown(key) == SetFlags(KeyFlags(ToLowerCase(key)), TRUE) /\ op' = "keydown"

\* window keyup listener of useKeyboardInput
HandleKeyUp(key) == SetFlags(KeyFlags(ToLowerCase(key)), FALSE) /\ op' = "keyup"

\* MobileController: onTouchStart of the button of flag k
HandleDown(k) == SetKey(k, TRUE) /\ op' = "touchstart"

\* MobileController: onTouchEnd / onTouchCancel of the button of flag k
HandleUp(k) == SetKey(k, FALSE) /\ op' = "touchend"

\* ------------------------------------------------------------------------
\* Track geometry (Track.tsx): lengths in 1/CM of a world unit
\* ------------------------------------------------------------------------
CM == 10^2

Units(u) == u * CM

\* a point that is a number in both coordinates
Point(x, z) == [finite |-> TRUE, x |-> x, z |-> z]

\* a point with a NaN or infinite coordinate
NotANumber == [finite |-> FALSE, x |-> 0, z |-> 0]

\* a.distanceTo(b)
Dist(a, b) == ISqrt((a.x - b.x) * (a.x - b.x) + (a.z - b.z) * (a.z - b.z))

\* variant: the index past the last point stays on the last point
AtNoWrap(polyline, i) == polyline[Min(i, Len(polyline) - 1) + 1]

\* polyline[i % n] for a 0-based index i
At(polyline, i) == polyline[(i % Len(polyline)) + 1]

RECURSIVE CumLen(_, _)
\* arcLen[k]: length of the first k edges of the closed polyline
CumLen(polyline, k) ==
  IF k = 0 THEN 0
  ELSE CumLen(polyline, k - 1) + Dist(At(polyline, k - 1), At(polyline, k))

RECURSIVE Advance(_, _, _)
\* while (idx < n - 1 && arcLen[idx + 1] < dist) idx++
Advance(polyline, idx, dist) ==
  IF idx < Len(polyline) - 1 /\ CumLen(polyline, idx + 1) < dist
  THEN Advance(polyline, idx + 1, dist)
  ELSE idx

\* variant: the interpolation parameter is ignored and the edge's end is taken
LerpToEnd(a, b, num, den) == Point(b.x, b.z)

\* new Vector3().lerpVectors(a, b, num / den)
LerpVectors(a, b, num, den) ==
  IF den = 0
  THEN NotANumber
  ELSE Point(a.x + TruncDiv((b.x - a.x) * num, den), a.z + TruncDiv((b.z - a.z) * num, den))

\* the point of the polyline at arc length dist, looked up from edge idx
PointAt(polyline, idx, dist) ==
  LerpVectors(At(polyline, idx), At(polyline, idx + 1),
              dist - CumLen(polyline, idx),
              CumLen(polyline, idx + 1) - CumLen(polyline, idx))

\* p0.distanceTo(p1), NaN (here -1) when a point is not a number
ChordLength(p0, p1) == IF p0.finite /\ p1.finite THEN Dist(p0, p1) ELSE -1

\* variant: every sampled step is returned
KeepAlways(len) == TRUE

\* if (len > 0.01)
KeepSegment(len) == len > 1

\* variant: the neighbour before the first point is the first point itself
PrevIndexClamped(i, n) == Max(i - 1, 0)

\* (i - 1 + points.length) % points.length
PrevIndex(i, n) == (i - 1 + n) % n

\* (i + 1) % points.length
NextIndex(i, n) == (i + 1) % n

\* Vector3.normalize() in the ground plane: a result scaled by FP, the zero
\* vector staying zero (three.js divides by length() || 1)
Normalize(x, z) ==
  LET len == ISqrt(x * x + z * z)
  IN  IF len = 0
      THEN [x |-> 0, z |-> 0]
      ELSE [x |-> TruncDiv(x * FP, len), z |-> TruncDiv(z * FP, len)]

\* the offset normal.multiplyScalar(width * 0.5) at point i
WidthOffset(points, i, width) ==
  LET n == Len(points)
      prev == At(points, PrevIndex(i, n))
      next == At(points, NextIndex(i, n))
      tangent == Normalize(next.x - prev.x, next.z - prev.z)
      normal == Normalize(-tangent.z, tangent.x)
      half == TruncDiv(width, 2)
  IN  [x |-> TruncDiv(normal.x * half, FP), z |-> TruncDiv(normal.z * half, FP)]

NoTrack == [fn |-> "none", pc |-> "idle"]

\* generateBarrierSegments(polyline, spacing) up to the while loop
CallBarrierSegments(polyline, spacing) ==
  /\ track.pc = "idle"
  /\ track' = [fn |-> "generateBarrierSegments", pc |-> "loop",
               polyline |-> polyline, spacing |-> spacing,
               totalLen |-> CumLen(polyline, Len(polyline)),
               sampleDist |-> 0, segIdx |-> 0, segments |-> << >>,
               iters |-> 0, spanning |-> 0,
               p0 |-> Point(0, 0), p1 |-> Point(0, 0)]
  /\ op' = "generateBarrierSegments"
  /\ UNCHANGED << isPlaying, isPaused, telemetryVars, raceVars, itemVars, keys,
                  controllerVars, bodyVars, nframes, tick, held >>

\* iterations of the sampling loop followed in one call
MaxIterations == 16

\* one pass through the body of while (sampleDist < totalLen)
BarrierIteration ==
  /\ track.pc = "loop"
  /\ track.sampleDist < track.totalLen
  /\ track.iters < MaxIterations
  /\ LET poly == track.polyline
         nextDist == Min(track.sampleDist + track.spacing, track.totalLen)
         segIdx == Advance(poly, track.segIdx, track.sampleDist)
         p0 == PointAt(poly, segIdx, track.sampleDist)
         endIdx == Advance(poly, segIdx, nextDist)
         p1 == PointAt(poly, endIdx, nextDist)
         len == ChordLength(p0, p1)
         seg == [position |-> Point(TruncDiv(p0.x + p1.x, 2), TruncDiv(p0.z + p1.z, 2)),
                 heading |-> Point(p1.x - p0.x, p1.z - p0.z),
                 length |-> len,
                 arc |-> nextDist - track.sampleDist,
                 sameEdge |-> segIdx = endIdx]
     IN  track' = [track EXCEPT
                     !.segIdx = segIdx,
                     !.p0 = p0,
                     !.p1 = p1,
                     !.segments = IF KeepSegment(len) THEN Append(@, seg) ELSE @,
                     !.spanning = IF segIdx = endIdx THEN @ ELSE @ + 1,
                     !.iters = @ + 1,
                     !.sampleDist = nextDist]
  /\ op' = "generateBarrierSegments"
  /\ UNCHANGED << isPlaying, isPaused, telemetryVars, raceVars, itemVars, keys,
                  controllerVars, bodyVars, nframes, tick, held >>

\* the loop condition fails: return segments
BarrierReturn ==
  /\ track.pc = "loop"
  /\ ~(track.sampleDist < track.totalLen)
  /\ track' = [track EXCEPT !.pc = "returned"]
  /\ op' = "generateBarrierSegments"
  /\ UNCHANGED << isPlaying, isPaused, telemetryVars, raceVars, itemVars, keys,
                  controllerVars, bodyVars, nframes, tick, held >>

\* generateTrackWidth(points, width)
CallTrackWidth(points, width) ==
  /\ track.pc = "idle"
  /\ track' = [fn |-> "generateTrackWidth", pc |-> "returned",
               points |-> points, width |-> width,
               left |-> [j \in 1..Len(points) |->
                           LET off == WidthOffset(points, j - 1, width)
                           IN  Point(points[j].x + off.x, points[j].z + off.z)],
               right |-> [j \in 1..Len(points) |->
                            LET off == WidthOffset(points, j - 1, width)
                            IN  Point(points[j].x - off.x, points[j].z - off.z)]]
  /\ op' = "generateTrackWidth"
  /\ UNCHANGED << isPlaying, isPaused, telemetryVars, raceVars, itemVars, keys,
                  controllerVars, bodyVars, nframes, tick, held >>

\* ------------------------------------------------------------------------
\* Initial state: the store as created, the car spawned at rest
\* ------------------------------------------------------------------------
StoreInit ==
  /\ isPlaying = FALSE
  /\ isPaused = FALSE
  /\ gameOver = FALSE
  /\ lap = 1
  /\ lapTimes = << >>
  /\ currentLapTime = 0
  /\ bestLapTime = NULL
  /\ speed = 0
  /\ boostAmount = BoostUnits(BOOST_FULL)
  /\ hasItem = FALSE
  /\ currentItem = NoItem
  /\ carPosition = TrackStartPosition
  /\ carRotation = TrackStartYaw

BodyInit ==
  /\ linvel = Vec(0, 0)
  /\ angvel = ZeroAngvel
  /\ rotation = 0
  /\ translation = CarSpawn

Init ==
  /\ StoreInit
  /\ BodyInit
  /\ keys = NoKeys
  /\ steeringRef = 0
  /\ localSpeed = 0
  /\ nframes = 0
  /\ op = "init"
  /\ tick = NoTick
  /\ track = NoTrack
  /\ held = {}


\* ------------------------------------------------------------------------
\* Single frames on sampled race states
\* ------------------------------------------------------------------------
\* frame deltas handed to useFrame (ms): same-instant, 120 Hz, 60 Hz,
\* the clamp value and a stalled frame
Deltas == {0, 8, 16, 50, 350}

\* frames per run
MaxFrames == 1

\* samples of the boost meter
BoostSamples == {0, 30, BoostUnits(50), BoostUnits(BOOST_FULL) - 10, BoostUnits(BOOST_FULL)}

\* States of the car during a race: velocity, heading, position, smoothed
\* steering and yaw rate as the controller and the world left them.
Scenes ==
  { \* spawned, at rest
    [vel |-> Vec(0, 0), rot |-> 0, pos |-> CarSpawn, steer |-> 0, ang |-> 0],
    \* cruising straight at 20 m/s
    [vel |-> Vec(0, MMS(20)), rot |-> 0, pos |-> Vec(0, MMS(30)), steer |-> 0, ang |-> 0],
    \* just below the speed cap
    [vel |-> Vec(0, MMS(MAX_SPEED) - 10), rot |-> 0, pos |-> Vec(0, MMS(60)),
     steer |-> 0, ang |-> 0],
    \* boosted above the plain cap
    [vel |-> Vec(0, MMS(60)), rot |-> 0, pos |-> Vec(0, MMS(70)), steer |-> 0, ang |-> 0],
    \* steering right at speed, the velocity lagging behind the heading
    [vel |-> Vec(MMS(6), MMS(19)), rot |-> -5000, pos |-> Vec(MMS(2), MMS(50)),
     steer |-> MAX_STEERING_ANGLE, ang |-> -33000],
    \* steering has just been released after a left turn
    [vel |-> Vec(MMS(-3), MMS(12)), rot |-> 2000, pos |-> Vec(MMS(-1), MMS(40)),
     steer |-> -5000, ang |-> 18000],
    \* the wheel almost back to centre
    [vel |-> Vec(0, MMS(10)), rot |-> 0, pos |-> Vec(0, MMS(20)), steer |-> 120, ang |-> -400],
    \* rolling slowly forward
    [vel |-> Vec(0, 300), rot |-> 0, pos |-> Vec(0, MMS(5)), steer |-> 0, ang |-> 0],
    \* reversing at the reverse speed limit, wheels turned
    [vel |-> Vec(0, -MMS(MAX_REVERSE_SPEED)), rot |-> 0, pos |-> Vec(0, MMS(-20)),
     steer |-> 3000, ang |-> 9000] }

SceneInit(scenes) ==
  \E sc \in scenes :
    /\ linvel = sc.vel
    /\ angvel = [x |-> 0, y |-> sc.ang, z |-> 0]
    /\ rotation = sc.rot
    /\ translation = sc.pos
    /\ steeringRef = sc.steer

\* the store right after startGame / resetGame, but for the fields named
FreshStore ==
  /\ gameOver = FALSE
  /\ lap = 1
  /\ lapTimes = << >>
  /\ currentLapTime = 0
  /\ bestLapTime = NULL
  /\ speed = 0
  /\ hasItem = FALSE
  /\ currentItem = NoItem
  /\ carPosition = TrackStartPosition
  /\ carRotation = TrackStartYaw
  /\ localSpeed = 0
  /\ nframes = 0
  /\ op = "init"
  /\ tick = NoTick
  /\ track = NoTrack
  /\ held = {}

\* A race in progress with the car in one of the scenes and the input flags in
\* any combination.
TickInit ==
  /\ SceneInit(Scenes)
  /\ keys \in [KeyNames -> BOOLEAN]
  /\ isPlaying = TRUE
  /\ isPaused = FALSE
  /\ boostAmount \in BoostSamples
  /\ FreshStore

Frame == \E delta \in Deltas : nframes < MaxFrames /\ FrameCallback(delta)

TickNext == Frame

SpecTick == TickInit /\ [][TickNext]_vars

\* ------------------------------------------------------------------------
\* Pausing and resuming a race
\* ------------------------------------------------------------------------
PauseScenes == {sc \in Scenes : sc.steer # 0 \/ sc.vel = Vec(0, 0)}

\* The car in one of the scenes with the input flags in any combination; the
\* race not started, paused or running.
PauseInit ==
  /\ SceneInit(PauseScenes)
  /\ keys \in [KeyNames -> BOOLEAN]
  /\ isPlaying \in BOOLEAN
  /\ isPaused \in BOOLEAN
  /\ isPaused => isPlaying
  /\ boostAmount \in (IF isPlaying THEN {30, BoostUnits(BOOST_FULL)}
                                  ELSE {BoostUnits(BOOST_FULL)})
  /\ FreshStore

\* the START RACE / RACE AGAIN buttons
ClickStart == ~isPlaying /\ StartGame

\* ESC or the pause button during a race
ClickPause == isPlaying /\ ~isPaused /\ PauseGame

\* ESC or the RESUME button on the pause screen
ClickResume == isPlaying /\ isPaused /\ ResumeGame

PauseNext == Frame \/ ClickStart \/ ClickPause \/ ClickResume

SpecPause == PauseInit /\ [][PauseNext]_vars

\* ------------------------------------------------------------------------
\* The boost meter under store actions and frames, from construction
\* ------------------------------------------------------------------------
SessionKeys == {"w", "shift"}

SessionDeltas == {16, 350}

\* frames per session
SessionFrames == 2

\* arguments handed to updateBoost (thousandths of a point)
BoostArgs == {-BoostUnits(5), 300, BoostUnits(BOOST_FULL) - 50, BoostUnits(250)}

SessionFrame == \E delta \in SessionDeltas : nframes < SessionFrames /\ FrameCallback(delta)

SessionKey == \E k \in SessionKeys : KeyDown(k) \/ KeyUp(k)

SessionBoost == \E amount \in BoostArgs : UpdateBoostCall(amount)

SessionNext ==
  StartGame \/ ResetGame \/ SessionBoost \/ SessionKey \/ SessionFrame

SpecSession == Init /\ [][SessionNext]_vars

\* ------------------------------------------------------------------------
\* Full throttle from rest
\* ------------------------------------------------------------------------
\* A body whose velocity only the controller changes: started from the
\* spawned car, forward is pressed and held, and frames follow one another
\* at a steady rate (60 Hz, 20 Hz, or stalled frames cut to the clamp).
ThrottleDeltas == {16, 50, 350}

\* frames of a throttle run
ThrottleFrames == 708

OnlyForward(k) == k = [NoKeys EXCEPT !["w"] = TRUE]

\* keydown of W / ArrowUp once the race runs
HoldForward == isPlaying /\ nframes = 0 /\ ~keys.w /\ KeyDown("w")

ThrottleFrame ==
  \E delta \in ThrottleDeltas :
    /\ OnlyForward(keys)
    /\ nframes < ThrottleFrames
    /\ nframes > 0 => delta = tick.delta
    /\ FrameCallback(delta)

ThrottleNext == ClickStart \/ HoldForward \/ ThrottleFrame

SpecThrottle == Init /\ [][ThrottleNext]_vars

\* ------------------------------------------------------------------------
\* Boosting from rest until the meter is empty
\* ------------------------------------------------------------------------
\* frames of a boosted run: more than the 313 frames of 16 ms that empty the meter
BoostFrames == 320

ForwardAndBoost(k) == k = [NoKeys EXCEPT !["w"] = TRUE, !["shift"] = TRUE]

\* keydown of Shift once forward is held
HoldBoost == isPlaying /\ nframes = 0 /\ OnlyForward(keys) /\ KeyDown("shift")

BoostFrame ==
  \E delta \in ThrottleDeltas :
    /\ ForwardAndBoost(keys)
    /\ nframes < BoostFrames
    /\ nframes > 0 => delta = tick.delta
    /\ FrameCallback(delta)

BoostNext == ClickStart \/ HoldForward \/ HoldBoost \/ BoostFrame

\* the next frame of the run is delivered
FrameDue ==
  /\ ForwardAndBoost(keys)
  /\ nframes < BoostFrames
  /\ nframes' = nframes + 1

\* the player does click and press, and the render loop keeps calling the
\* frame callback
SpecBoost ==
  /\ Init
  /\ [][BoostNext]_vars
  /\ WF_vars(ClickStart \/ HoldForward \/ HoldBoost)
  /\ WF_nframes(FrameDue)

\* ------------------------------------------------------------------------
\* The wheel returning to centre
\* ------------------------------------------------------------------------
\* steady frame rates of 120 Hz, 60 Hz, 20 Hz and stalled frames
CentreDeltas == {8, 16, 50, 350}

\* frames of a run: more than the 80 frames of 8 ms that bring the wheel from
\* full lock to 0.01
CentreFrames == 90

\* the scenes in which the wheel is off centre
TurnedScenes == {sc \in Scenes : sc.steer # 0}

\* a running race, the wheel turned, left and right released, the other keys
\* held or not
CentreInit ==
  /\ SceneInit(TurnedScenes)
  /\ keys \in {k \in [KeyNames -> BOOLEAN] : ~k.a /\ ~k.d}
  /\ isPlaying = TRUE
  /\ isPaused = FALSE
  /\ boostAmount = BoostUnits(BOOST_FULL)
  /\ FreshStore

CentreFrame ==
  \E delta \in CentreDeltas :
    /\ nframes < CentreFrames
    /\ nframes > 0 => delta = tick.delta
    /\ FrameCallback(delta)

CentreNext == CentreFrame

\* the next frame of the run is delivered
CentreDue == nframes < CentreFrames /\ nframes' = nframes + 1

\* the render loop keeps calling the frame callback
SpecCentre == CentreInit /\ [][CentreNext]_vars /\ WF_nframes(CentreDue)

\* ------------------------------------------------------------------------
\* A drive from rest: straight, into a left turn, lifting off, letting go
\* ------------------------------------------------------------------------
\* every frame of the drive lasts the clamp value and is followed by a world
\* step of the same length
DriveDelta == DT_CLAMP

\* frames driven straight before the turn may begin
StraightFrames == 250

\* frames from the end of the straight to the end of the drive
TurnFrames == 14

Released(k) == k = NoKeys

\* keydown of A / ArrowLeft at the end of the straight
TurnLeft ==
  /\ op = "physics"
  /\ nframes = StraightFrames
  /\ OnlyForward(keys)
  /\ KeyDown("a")

\* keyup of W / ArrowUp, on the straight or in the turn
LiftThrottle ==
  /\ op = "physics"
  /\ nframes >= StraightFrames
  /\ keys.w
  /\ KeyUp("w")

\* keyup of A / ArrowLeft after the throttle was lifted
ReleaseLeft ==
  /\ op \in {"physics", "keyup"}
  /\ keys.a /\ ~keys.w
  /\ KeyUp("a")

DriveFrame ==
  /\ isPlaying
  /\ op # "frame"
  /\ nframes < StraightFrames + TurnFrames
  /\ nframes = 0 => keys.w
  /\ FrameCallback(DriveDelta)

\* the world advances by the frame's time after each frame
WorldStep == op = "frame" /\ PhysicsStep(tick.delta)

DriveNext ==
  ClickStart \/ HoldForward \/ TurnLeft \/ LiftThrottle \/ ReleaseLeft
    \/ DriveFrame \/ WorldStep

SpecDrive == Init /\ [][DriveNext]_vars

\* ------------------------------------------------------------------------
\* The input flags under keyboard and touch events
\* ------------------------------------------------------------------------
KeyboardEvent == \E key \in KeyStrings : (HandleKeyDown(key) \/ HandleKeyUp(key)) /\ UNCHANGED held

TouchEvent == \E k \in KeyNames : (HandleDown(k) \/ HandleUp(k)) /\ UNCHANGED held

InputNext == KeyboardEvent \/ TouchEvent

SpecInput == Init /\ [][InputNext]_vars

\* ------------------------------------------------------------------------
\* One control held on several input sources
\* ------------------------------------------------------------------------
\* the letter key, the arrow key and the touch button of forward, the key and
\* the touch button of the handbrake and of the boost
Controls ==
  { << "key", "w" >>, << "key", "ArrowUp" >>, << "touch", "w" >>,
    << "key", " " >>, << "touch", "space" >>,
    << "key", "Shift" >>, << "touch", "shift" >> }

\* the flags a control is bound to
FlagsOf(c) == IF c[1] = "touch" THEN {c[2]} ELSE KeyFlags(ToLowerCase(c[2]))

\* the player puts a finger on a control (a held key repeats its keydown)
Press(c) ==
  /\ held' = held \cup {c}
  /\ IF c[1] = "touch" THEN HandleDown(c[2]) ELSE HandleKeyDown(c[2])

\* variant: a flag stays set while another control bound to it is held
ReleaseCounted(c) ==
  /\ c \in held
  /\ held' = held \ {c}
  /\ keys' = [f \in KeyNames |->
               IF f \in FlagsOf(c) THEN \E o \in held' : f \in FlagsOf(o) ELSE keys[f]]
  /\ op' = (IF c[1] = "touch" THEN "touchend" ELSE "keyup")
  /\ UNCHANGED << isPlaying, isPaused, telemetryVars, raceVars, itemVars,
                  controllerVars, bodyVars, nframes, tick, track >>

\* the player lifts a finger from a control
Release(c) ==
  /\ c \in held
  /\ held' = held \ {c}
  /\ IF c[1] = "touch" THEN HandleUp(c[2]) ELSE HandleKeyUp(c[2])

SourcesNext == \E c \in Controls : Press(c) \/ Release(c)

SpecSources == Init /\ [][SourcesNext]_vars

\* ------------------------------------------------------------------------
\* Track geometry calls on small closed polylines
\* ------------------------------------------------------------------------
P(x, z) == Point(Units(x), Units(z))

Square == << P(0, 0), P(10, 0), P(10, 10), P(0, 10) >>

Rectangle == << P(0, 0), P(4, 0), P(4, 2), P(0, 2) >>

Triangle == << P(0, 0), P(4, 0), P(0, 3) >>

\* an L-shaped, non-convex loop
Hook == << P(0, 0), P(8, 0), P(8, 4), P(4, 4), P(4, 8), P(0, 8) >>

\* the first point repeated: a first edge of length zero
RepeatedStart == << P(0, 0), P(0, 0), P(4, 0), P(4, 3) >>

\* an inner point repeated: a later edge of length zero
RepeatedCorner == << P(0, 0), P(4, 0), P(4, 0), P(4, 3) >>

ConvexLoops == { Square, Rectangle, Triangle }

Polylines == ConvexLoops \cup { Hook, RepeatedStart, RepeatedCorner }

\* non-positive spacings, spacings that divide the loops and that do not (the
\* barriers of Track.tsx are 8 units long), one leaving a remainder of 0.01 and one longer than every loop
Spacings == { -200, 0, 300, 400, 500, 800, 1199, 1200, 1333, 5000 }

Centerlines == ConvexLoops \cup { Hook }

Widths == { Units(2), Units(TRACK_WIDTH) }

TrackNext ==
  \/ \E polyline \in Polylines, spacing \in Spacings : CallBarrierSegments(polyline, spacing)
  \/ BarrierIteration
  \/ BarrierReturn
  \/ \E points \in Centerlines, width \in Widths : CallTrackWidth(points, width)

SpecTrack == Init /\ [][TrackNext]_vars

\* ------------------------------------------------------------------------
\* The application: store actions, input events, frames and world steps
\* ------------------------------------------------------------------------
\* the MAIN MENU / QUIT TO MENU buttons
ClickQuit == (isPaused \/ gameOver) /\ ResetGame

\* variant: Escape pauses and never resumes
PressEscapePauseOnly ==
  /\ isPaused' = (isPlaying \/ isPaused)
  /\ op' = "escape"
  /\ UNCHANGED << isPlaying, telemetryVars, raceVars, itemVars, keys, controllerVars,
                  bodyVars, nframes, tick, track, held >>

\* keydown of Escape: App's listener (the listener of useKeyboardInput gets
\* the same event and finds no flag bound to it)
PressEscape ==
  /\ IF isPlaying /\ ~isPaused
     THEN isPaused' = TRUE
     ELSE IF isPlaying /\ isPaused
          THEN isPaused' = FALSE
          ELSE isPaused' = isPaused
  /\ keys' = [k \in KeyNames |-> IF k \in KeyFlags(ToLowerCase("Escape")) THEN TRUE ELSE keys[k]]
  /\ op' = "escape"
  /\ UNCHANGED << isPlaying, telemetryVars, raceVars, itemVars, controllerVars,
                  bodyVars, nframes, tick, track, held >>

\* lap-timer callbacks followed in one race
MaxLapTicks == 2

\* variant: the timer's callback also reports a finished lap
LapTimerCompletesLap == isPlaying /\ ~isPaused /\ CompleteLap

\* the interval of GameScene, alive while the race runs
LapTimer ==
  /\ isPlaying /\ ~isPaused
  /\ currentLapTime < MaxLapTicks * LAP_TIMER_MS
  /\ UpdateLapTime(LAP_TIMER_MS)

Next ==
  \/ ClickStart
  \/ ClickPause
  \/ ClickResume
  \/ ClickQuit
  \/ PressEscape
  \/ LapTimer
  \/ SessionKey
  \/ SessionFrame
  \/ WorldStep

Spec == Init /\ [][Next]_vars

\* ------------------------------------------------------------------------
\* Steering through races, pauses and restarts
\* ------------------------------------------------------------------------
\* frame deltas (ms): same-instant, 60 Hz, the clamp value, a stalled frame
SteerDeltas == {0, 16, 50, 350}

\* frames of a steering session
SteerFrames == 3

SteerFrame == \E delta \in SteerDeltas : nframes < SteerFrames /\ FrameCallback(delta)

\* keydown and keyup of the steering keys
SteerKey == \E k \in {"a", "d"} : KeyDown(k) \/ KeyUp(k)

SteerNext ==
  \/ ClickStart
  \/ ClickPause
  \/ ClickResume
  \/ ClickQuit
  \/ SteerKey
  \/ SteerFrame

SpecSteer == Init /\ [][SteerNext]_vars

\* ------------------------------------------------------------------------
\* The store under any sequence of its race actions
\* ------------------------------------------------------------------------
\* deltas handed to updateLapTime (ms)
TimerDeltas == {0, LAP_TIMER_MS}

\* a callback of the lap timer: one that was already queued runs even if the
\* race has been paused or ended since
TimerCallback ==
  \E delta \in TimerDeltas :
    /\ currentLapTime < MaxLapTicks * LAP_TIMER_MS
    /\ UpdateLapTime(delta)

StoreNext ==
  \/ StartGame
  \/ PauseGame
  \/ ResumeGame
  \/ EndGame
  \/ ResetGame
  \/ CompleteLap
  \/ TimerCallback

SpecStore == Init /\ [][StoreNext]_vars

\* ------------------------------------------------------------------------
\* Properties of one frame
\* ------------------------------------------------------------------------
Ticked == op = "frame" /\ tick.ran

Count(calls, name) == Cardinality({i \in DOMAIN calls : calls[i] = name})

VelocityWrites(calls) == Count(calls, "setLinvel") + Count(calls, "applyImpulse")

\* C2: the step used by a frame is min(delta, 0.05 s), and with forward held
\* the longitudinal impulse changes the speed along the heading by no more than
\* the acceleration scalar times 0.05 s.
C2_ClampedStep ==
  Ticked =>
    /\ tick.dt = Min(tick.delta, 50)
    /\ tick.keys.w =>
         Abs(Dot(tick.velLong, Forward(tick.yaw)) - Dot(tick.velCoast, Forward(tick.yaw)))
           <= Abs(tick.acceleration) * 5

C2_Witness ==
  /\ Ticked
  /\ tick.keys.w
  /\ tick.delta = 350
  /\ tick.dt = 50
  /\ tick.acceleration > 0
  /\ Dot(tick.velLong, Forward(tick.yaw)) > Dot(tick.velCoast, Forward(tick.yaw))

\* C5: with the handbrake held the velocity after the frame carries the
\* frame's grip correction and longitudinal impulse as well as the handbrake
\* scaling, in either order of application.
C5_HandbrakeKeepsImpulses ==
  (Ticked /\ tick.keys.space) =>
    \/ linvel = Scale(tick.velGrip, HandbrakeFactor(tick.dt))
    \/ linvel = Vec(Scale(tick.vel, HandbrakeFactor(tick.dt)).x + tick.velGrip.x - tick.vel.x,
                    Scale(tick.vel, HandbrakeFactor(tick.dt)).z + tick.velGrip.z - tick.vel.z)

\* C7: every frame on which the car is not boosting and the meter is below 100
\* adds 5 * dt to the meter, capped at 100.
C7_RegenWhenNotBoosting ==
  (Ticked /\ ~(tick.keys.w /\ Boosting(tick.keys, tick.boost))
          /\ tick.boost < BoostUnits(100)) =>
    boostAmount = Min(tick.boost + 5 * tick.dt, BoostUnits(100))

C9_SteeringLags ==
  (Ticked /\ 0 < tick.dt /\ tick.dt <= 50) =>
    LET gap == tick.target - tick.steer
    IN  /\ tick.target = (IF tick.keys.d THEN 8000 ELSE IF tick.keys.a THEN -8000 ELSE 0)
        /\ 0 < tick.steerLerp /\ tick.steerLerp < FP
        /\ gap > 0 => tick.steer <= steeringRef /\ steeringRef < tick.target
        /\ gap < 0 => tick.target < steeringRef /\ steeringRef <= tick.steer
        /\ gap = 0 => steeringRef = tick.steer
        /\ Abs(gap) >= 100 => steeringRef # tick.steer

C9_Witness ==
  /\ Ticked
  /\ tick.dt = 50
  /\ tick.keys.d
  /\ tick.steer = -5000
  /\ tick.steer < steeringRef /\ steeringRef < tick.target

\* C10 as stated: one frame writes the rotation at most once and the linear
\* velocity, by impulse or by set, at most once.
C10_SingleVelocityWrite ==
  Ticked =>
    /\ Count(tick.calls, "setRotation") <= 1
    /\ VelocityWrites(tick.calls) <= 1

\* C10: one frame writes the rotation exactly once and the angular velocity
\* exactly once; it writes the linear velocity up to three times: the coasting
\* set or the thrust impulse, the grip impulse, and the handbrake set.
C10_BoundedWrites ==
  Ticked =>
    /\ Count(tick.calls, "setRotation") = 1
    /\ Count(tick.calls, "setAngvel") = 1
    /\ Count(tick.calls, "setLinvel") <= 2
    /\ Count(tick.calls, "applyImpulse") <= 2
    /\ VelocityWrites(tick.calls) <= 3
    /\ ~(Count(tick.calls, "setLinvel") = 2 /\ ~tick.keys.space)

C10_Witness ==
  /\ Ticked
  /\ VelocityWrites(tick.calls) = 3
  /\ tick.keys.space /\ tick.keys.w
  /\ Count(tick.calls, "setRotation") = 1

\* ------------------------------------------------------------------------
\* Properties of the frame guard and of the boost meter
\* ------------------------------------------------------------------------
\* C1: a frame rendered while the race is not playing or is paused changes
\* neither the body's velocities and rotation, nor the steering angle, nor
\* the boost meter, nor the published speed, position and yaw; a frame
\* updates them only when the race is playing and not paused, so after a
\* pause only once resumeGame (or startGame) has run.
C1_InactiveFrameChangesNothing ==
  [][ op' = "frame" =>
        /\ ~(isPlaying /\ ~isPaused) =>
             /\ ~tick'.ran
             /\ UNCHANGED << linvel, angvel, rotation, translation, steeringRef,
                             boostAmount, speed, carPosition, carRotation >>
        /\ tick'.ran => isPlaying /\ ~isPaused ]_vars

C1_Witness ==
  /\ op = "frame"
  /\ ~tick.ran
  /\ tick.delta = 350
  /\ isPlaying /\ isPaused
  /\ keys.w /\ keys.a /\ keys.shift
  /\ linvel # Vec(0, 0)
  /\ angvel # ZeroAngvel
  /\ boostAmount < BoostUnits(100)

\* C6: the boost meter stays within 0..100 after any frames and store actions.
C6_BoostInRange == 0 <= boostAmount /\ boostAmount <= BoostUnits(100)

C6_Witness ==
  /\ Ticked
  /\ tick.keys.w /\ tick.keys.shift
  /\ tick.boost > 0
  /\ tick.boost - 20 * tick.dt < 0
  /\ boostAmount = 0

Moving(spd) == spd > 100

C11_SpeedIsForwardSpeedKmh ==
  Ticked => speed = TruncDiv(Abs(tick.forwardSpeed) * 36, 10)

\* ------------------------------------------------------------------------
\* Properties of the input flags
\* ------------------------------------------------------------------------
\* the flag a key names: letter or arrow in either case, space, shift
NamedBy(f, key) ==
  \/ f = "w" /\ key \in {"w", "W", "ArrowUp"}
  \/ f = "a" /\ key \in {"a", "A", "ArrowLeft"}
  \/ f = "s" /\ key \in {"s", "S", "ArrowDown"}
  \/ f = "d" /\ key \in {"d", "D", "ArrowRight"}
  \/ f = "space" /\ key = " "
  \/ f = "shift" /\ key = "Shift"

FlagsChanged == {f \in KeyNames : keys'[f] # keys[f]}

\* C12: the flags start all false; a press or release, by keyboard or by
\* touch, sets or clears the flag it names and leaves the others as they were,
\* and a press of a flag already set (a release of a flag already clear)
\* leaves the flags as they are.
C12_InputFlagsIndependent ==
  /\ keys = NoKeys
  /\ [][ /\ \A key \in KeyStrings :
              /\ HandleKeyDown(key) =>
                   /\ \A f \in KeyNames : keys'[f] = (NamedBy(f, key) \/ keys[f])
                   /\ Cardinality(FlagsChanged) <= 1
                   /\ (\A f \in KeyNames : NamedBy(f, key) => keys[f]) => keys' = keys
              /\ HandleKeyUp(key) =>
                   /\ \A f \in KeyNames : keys'[f] = (~NamedBy(f, key) /\ keys[f])
                   /\ Cardinality(FlagsChanged) <= 1
                   /\ (\A f \in KeyNames : NamedBy(f, key) => ~keys[f]) => keys' = keys
         /\ \A k \in KeyNames :
              /\ HandleDown(k) => keys' = [keys EXCEPT ![k] = TRUE]
              /\ HandleUp(k) => keys' = [keys EXCEPT ![k] = FALSE] ]_vars

C12_Witness ==
  /\ op = "keyup"
  /\ keys = [NoKeys EXCEPT !["a"] = TRUE, !["shift"] = TRUE, !["space"] = TRUE]

\* ------------------------------------------------------------------------
\* Properties of frames with a non-positive delta
\* ------------------------------------------------------------------------
\* C14: a frame callback invoked with delta <= 0 does not run the update: it
\* writes neither the steering state, nor the body, nor the boost meter, nor
\* the telemetry.
C14_NonPositiveDeltaRejected ==
  (op = "frame" /\ tick.delta <= 0) => ~tick.ran

\* ------------------------------------------------------------------------
\* Properties of barrier segmentation
\* ------------------------------------------------------------------------
InBarrierCall == track.fn = "generateBarrierSegments"

BarrierReturned == InBarrierCall /\ track.pc = "returned"

\* C13: a call of generateBarrierSegments with spacing <= 0 ends in a
\* configuration error: it neither runs the sampling loop nor returns a list.
C13_NonPositiveSpacingRejected ==
  (InBarrierCall /\ track.spacing <= 0) => (track.iters = 0 /\ track.pc # "returned")

\* Math.ceil(a / b) for positive b
CeilDiv(a, b) == (a + b - 1) \div b

\* the straight distance between the points of the polyline at arc lengths
\* k * spacing and min((k + 1) * spacing, L), each looked up from the first edge
StepChord(polyline, spacing, k) ==
  LET L == CumLen(polyline, Len(polyline))
      from == k * spacing
      to == Min((k + 1) * spacing, L)
  IN  ChordLength(PointAt(polyline, Advance(polyline, 0, from), from),
                  PointAt(polyline, Advance(polyline, 0, to), to))

\* the steps of a complete sampling whose end points are more than 0.01 apart
LongSteps(polyline, spacing) ==
  { k \in 0..(CeilDiv(CumLen(polyline, Len(polyline)), spacing) - 1) :
      StepChord(polyline, spacing, k) > 1 }

\* C15 as stated: on a convex closed polyline of length L a call with
\* spacing S > 0 returns exactly ceil(L / S) segments.
C15_ExactlyCeilSegments ==
  (BarrierReturned /\ track.spacing > 0 /\ track.polyline \in ConvexLoops)
     => Len(track.segments) = CeilDiv(track.totalLen, track.spacing)

\* C15 amended: with S > 0 the loop advances by S per pass (so it ends after
\* ceil(L / S) passes), and the call returns one segment for each pass whose
\* end points are more than 0.01 apart: at most ceil(L / S) segments, fewer
\* when a step is degenerate.
C15_SegmentsOfLongSteps ==
  /\ (InBarrierCall /\ track.spacing > 0)
        => track.sampleDist = Min(track.iters * track.spacing, track.totalLen)
  /\ (BarrierReturned /\ track.spacing > 0 /\ track.polyline \in ConvexLoops)
        => /\ track.iters = CeilDiv(track.totalLen, track.spacing)
           /\ Len(track.segments) = Cardinality(LongSteps(track.polyline, track.spacing))
           /\ Len(track.segments) <= CeilDiv(track.totalLen, track.spacing)
           /\ \A j \in 1..Len(track.segments) : track.segments[j].length > 1

\* a square of side 10 sampled every 13.33: three segments and a last step of
\* 0.01 that is not returned
C15_Witness ==
  /\ BarrierReturned
  /\ track.polyline = Square
  /\ track.spacing = 1333
  /\ track.iters = 4
  /\ Len(track.segments) = 3

RECURSIVE SumLengths(_)
\* the sum of the lengths of a list of segments
SumLengths(segments) ==
  IF segments = << >> THEN 0
  ELSE Head(segments).length + SumLengths(Tail(segments))

\* C16 as stated: on a convex closed polyline of length L and with S > 0 the
\* returned lengths sum to L, up to the rounding of the sample points (0.03
\* per step), steps across a vertex included.
C16_LengthsSumToArcLength ==
  (BarrierReturned /\ track.spacing > 0 /\ track.polyline \in ConvexLoops)
     => Abs(SumLengths(track.segments) - track.totalLen) <= 3 * track.iters

\* C16 amended: a segment's length is the straight distance between its two
\* sample points: equal to the arc length of its step when both points lie on
\* one edge, and never longer; so the lengths sum to at most L, and to L (up
\* to rounding and dropped steps of at most 0.01) when no step spans a vertex.
C16_LengthsAreChords ==
  (InBarrierCall /\ track.spacing > 0 /\ track.polyline \in ConvexLoops)
     => /\ \A j \in 1..Len(track.segments) :
             LET seg == track.segments[j]
             IN  /\ seg.length <= seg.arc + 3
                 /\ seg.sameEdge => Abs(seg.length - seg.arc) <= 3
        /\ SumLengths(track.segments) <= track.sampleDist + 3 * track.iters
        /\ track.spanning = 0
              => Abs(SumLengths(track.segments) - track.sampleDist) <= 3 * track.iters

\* a square of side 10 sampled every 3: the steps across two of the corners
\* are returned with the length of the diagonal cut, and the sum falls short of 40
C16_Witness ==
  /\ BarrierReturned
  /\ track.polyline = Square
  /\ track.spacing = 300
  /\ \E j \in 1..Len(track.segments) :
        ~track.segments[j].sameEdge /\ track.segments[j].length < 250
  /\ SumLengths(track.segments) < track.totalLen - 100

\* C17: no sample point computed by generateBarrierSegments has a coordinate
\* that is not a number, zero-length edges of the polyline included.
C17_SamplePointsAreNumbers ==
  (InBarrierCall /\ track.spacing > 0 /\ track.iters > 0)
     => track.p0.finite /\ track.p1.finite

\* ------------------------------------------------------------------------
\* Properties of the road's edges
\* ------------------------------------------------------------------------
\* points[i + 1] - points[i - 1], neighbours taken modulo N
Chord(points, i) ==
  LET prev == At(points, i - 1 + Len(points))
      next == At(points, i + 1)
  IN  [x |-> next.x - prev.x, z |-> next.z - prev.z]

\* C18: generateTrackWidth returns N left and N right points; at every index,
\* the first and the last included, left[i] and right[i] mirror each other in
\* points[i], are width apart (within 0.04, the rounding of the model), and
\* lie across the line through the two circular neighbours of points[i], left
\* on the side of (-tangent.z, tangent.x).
C18_EdgesMirrorCenterline ==
  track.fn = "generateTrackWidth" =>
    /\ Len(track.left) = Len(track.points)
    /\ Len(track.right) = Len(track.points)
    /\ \A j \in 1..Len(track.points) :
          LET c == track.points[j]
              l == track.left[j]
              r == track.right[j]
              t == Chord(track.points, j - 1)
              across == [x |-> l.x - r.x, z |-> l.z - r.z]
          IN  /\ l.x + r.x = 2 * c.x
              /\ l.z + r.z = 2 * c.z
              /\ Abs(Dist(l, r) - track.width) <= 4
              /\ Abs(across.x * t.x + across.z * t.z) <= 4 * Hypot(t.x, t.z)
              /\ across.z * t.x - across.x * t.z > 0

\* the L-shaped loop offset by the track's width: the edges at the first and
\* at the last point use the neighbours across the end of the list
C18_Witness ==
  /\ track.fn = "generateTrackWidth"
  /\ track.points = Hook
  /\ track.width = Units(TRACK_WIDTH)
  /\ track.left[1] # track.right[1]
  /\ track.left[Len(Hook)] # track.right[Len(Hook)]

\* ------------------------------------------------------------------------
\* Properties of the wired application
\* ------------------------------------------------------------------------
\* C19: a keydown of Escape during a race inverts isPaused (so a second one
\* restores it), outside a race it leaves isPaused alone; in both cases every
\* other field of the store, the input flags, the controller and the body
\* stay as they were.
C19_EscapeTogglesPause ==
  [][PressEscape =>
       /\ isPlaying => isPaused' = ~isPaused
       /\ ~isPlaying => isPaused' = isPaused
       /\ UNCHANGED << isPlaying, telemetryVars, raceVars, itemVars, keys,
                       controllerVars, bodyVars >>]_vars

\* Escape has just resumed a race that had been running and was paused
C19_Witness ==
  /\ op = "escape"
  /\ isPlaying
  /\ ~isPaused
  /\ currentLapTime > 0
  /\ nframes > 0

\* C20: whatever the player clicks or presses and however long the race
\* runs, the race stays on lap 1 with no recorded lap time and is never over.
C20_RaceNeverProgresses ==
  /\ lap = 1
  /\ lapTimes = << >>
  /\ bestLapTime = NULL
  /\ gameOver = FALSE

\* a race that was driven, timed, paused and resumed
C20_Witness ==
  /\ op = "resumeGame"
  /\ isPlaying
  /\ currentLapTime = MaxLapTicks * LAP_TIMER_MS
  /\ nframes = SessionFrames
  /\ speed > 0

\* ------------------------------------------------------------------------
\* Properties of braking and reversing
\* ------------------------------------------------------------------------
\* C21: in a frame with back held and forward not held the acceleration is
\* -BRAKE_FORCE above 0.5 m/s, -ACCELERATION / 2 from 0.5 m/s down to (not
\* including) -MAX_REVERSE_SPEED, and 0 at or below -MAX_REVERSE_SPEED, where
\* the frame gives the car no impulse along its heading.
C21_BrakeThenReverse ==
  (Ticked /\ tick.keys.s /\ ~tick.keys.w) =>
    /\ tick.forwardSpeed > 500 => tick.acceleration = -(BRAKE_FORCE * 10)
    /\ (tick.forwardSpeed <= 500 /\ tick.forwardSpeed > -MMS(MAX_REVERSE_SPEED))
          => tick.acceleration * 2 = -(ACCELERATION * 10)
    /\ tick.forwardSpeed <= -MMS(MAX_REVERSE_SPEED)
          => /\ tick.acceleration = 0
             /\ tick.velLong = tick.vel
             /\ Count(tick.calls, "applyImpulse") = (IF Sliding(tick.lateralSpeed) THEN 1 ELSE 0)

\* back held while reversing at the reverse speed limit: no thrust
C21_Witness ==
  /\ Ticked
  /\ tick.keys.s
  /\ ~tick.keys.w
  /\ tick.dt > 0
  /\ tick.forwardSpeed = -MMS(MAX_REVERSE_SPEED)
  /\ tick.acceleration = 0

\* ------------------------------------------------------------------------
\* Properties of the chain of sample steps
\* ------------------------------------------------------------------------
\* the closed polylines of the samples that have no edge of length zero
ProperLoops == ConvexLoops \cup { Hook }

\* C22: on a closed polyline without zero-length edges and with S > 0 every
\* pass of the sampling loop moves forward in arc length and starts where the
\* pass before it ended, the first at polyline[0]; the pass that reaches the
\* total length ends at polyline[0]; a segment is emitted only with a length
\* above 0.01 and of at most S.
C22_StepsFormClosedChain ==
  [][(BarrierIteration /\ track.spacing > 0 /\ track.polyline \in ProperLoops) =>
       /\ track'.sampleDist > track.sampleDist
       /\ track'.p0 = (IF track.iters = 0 THEN At(track.polyline, 0) ELSE track.p1)
       /\ track'.sampleDist = track.totalLen => track'.p1 = At(track.polyline, 0)
       /\ \A j \in 1..Len(track'.segments) :
             /\ track'.segments[j].length > 1
             /\ track'.segments[j].length <= track.spacing
       /\ Len(track'.segments) \in {Len(track.segments), Len(track.segments) + 1}]_vars

\* the L-shaped loop sampled every 5: the chain of six steps has come back to
\* the first point
C22_Witness ==
  /\ BarrierReturned
  /\ track.polyline = Hook
  /\ track.spacing = 500
  /\ track.iters > 5
  /\ track.p1 = At(Hook, 0)
  /\ Len(track.segments) = track.iters

\* ------------------------------------------------------------------------
\* Properties of a boosted run
\* ------------------------------------------------------------------------
\* C23: with forward and boost held through a running race, every frame with
\* dt > 0 takes 20 * dt off the boost meter, stopping at exactly 0; a frame
\* that starts with an empty meter accelerates with factor 1 at most and
\* leaves the meter at 0; and the meter does become empty and stays so.
C23_BoostDrainsToZero ==
  /\ []((Ticked /\ tick.keys.w /\ tick.keys.shift /\ tick.dt > 0) =>
          /\ boostAmount = Max(0, tick.boost - BOOST_DRAIN * tick.dt)
          /\ tick.boost > 0 => boostAmount < tick.boost
          /\ tick.boost = 0 => (boostAmount = 0 /\ tick.acceleration \in {0, ACCELERATION * 10}))
  /\ <>[](boostAmount = 0)

\* a frame of the run that found the meter empty and accelerated unboosted
C23_Witness ==
  /\ Ticked
  /\ ForwardAndBoost(tick.keys)
  /\ tick.prev.ran
  /\ tick.boost = 0
  /\ boostAmount = 0
  /\ tick.acceleration = ACCELERATION * 10

\* ------------------------------------------------------------------------
\* Properties of the wheel returning to centre
\* ------------------------------------------------------------------------
\* C24: with left and right released, a frame never moves the steering angle
\* away from zero, and a frame that leaves it at 0.01 or less writes a zero
\* angular velocity; as frames keep coming the angle does fall to 0.01 or
\* less, and from then on the angular velocity is zero.
C24_WheelCentresAndSpinStops ==
  /\ []((Ticked /\ ~tick.keys.a /\ ~tick.keys.d /\ tick.dt > 0) =>
          /\ Abs(steeringRef) <= Abs(tick.steer)
          /\ Abs(tick.steer) > 100 => Abs(steeringRef) < Abs(tick.steer)
          /\ Abs(steeringRef) <= 100 => angvel = ZeroAngvel)
  /\ <>[](Abs(steeringRef) <= 100 /\ angvel = ZeroAngvel)

\* a car at speed whose wheel was at full lock, now within 0.01 of centre
\* and no longer turning
C24_Witness ==
  /\ Ticked
  /\ tick.prev.ran
  /\ tick.speed > MMS(10)
  /\ Abs(tick.steer) > 100
  /\ Abs(steeringRef) <= 100
  /\ angvel = ZeroAngvel
  /\ nframes > 3

\* ------------------------------------------------------------------------
\* Properties of flags written by several sources
\* ------------------------------------------------------------------------
\* C25: whichever controls are held, pressing a control sets the flags it is
\* bound to and releasing it clears them, other controls of the same flag
\* still held or not; the other flags keep their values. So a flag holds the
\* value of the last press or release of any of its controls.
C25_LastWriterWins ==
  [][\A c \in Controls :
       /\ Press(c) => \A f \in FlagsOf(c) : keys'[f]
       /\ Release(c) => \A f \in FlagsOf(c) : ~keys'[f]
       /\ (Press(c) \/ Release(c)) => \A f \in KeyNames \ FlagsOf(c) : keys'[f] = keys[f]]_vars

\* the W key has been released while ArrowUp and the touch button of forward
\* are still held: the forward flag is clear
C25_Witness ==
  /\ op = "keyup"
  /\ ~keys.w
  /\ << "key", "w" >> \notin held
  /\ << "key", "ArrowUp" >> \in held
  /\ << "touch", "w" >> \in held

\* ------------------------------------------------------------------------
\* Properties of the store's race actions
\* ------------------------------------------------------------------------
\* C26: a call of updateLapTime never lowers currentLapTime, and it leaves it
\* as it was unless the race is playing and not paused at the time of the
\* call, the store having been paused, ended or reset before it or not.
C26_LapTimeOnlyAdvancesWhileRunning ==
  [][op' = "updateLapTime" =>
       /\ currentLapTime' >= currentLapTime
       /\ ~(isPlaying /\ ~isPaused) => currentLapTime' = currentLapTime]_vars

\* a timer callback has run on a paused race that had been timed before
C26_Witness ==
  /\ op = "updateLapTime"
  /\ isPlaying
  /\ isPaused
  /\ currentLapTime = LAP_TIMER_MS

\* C27: whenever the store says the game is over, it says no race is playing.
C27_GameOverMeansNotPlaying == gameOver => ~isPlaying

\* the last lap has been completed: the game is over and the race stopped
C27_Witness ==
  /\ op = "completeLap"
  /\ lap = TOTAL_LAPS
  /\ gameOver
  /\ ~isPlaying

\* C30: the lap counter stays within 1..totalLaps, and a best lap time, when
\* there is one, is no greater than any lap time recorded in lapTimes.
C30_BestLapIsMinimum ==
  /\ lap \in 1..TOTAL_LAPS
  /\ bestLapTime # NULL => \A i \in 1..Len(lapTimes) : bestLapTime <= lapTimes[i]

\* ------------------------------------------------------------------------
\* Properties of the speed cap
\* ------------------------------------------------------------------------
\* MAX_SPEED * boost of a frame, in mm/s
SpeedCap(t) == MAX_SPEED * 100 * BoostFactor(t.keys, t.boost)

\* the speed along the frame's heading after the longitudinal step
SpeedAfterThrust(t) == Dot(t.velLong, Forward(t.yaw))

\* C28: a frame that starts at or above MAX_SPEED * boost applies no forward
\* impulse; a frame that starts below it under throttle ends its longitudinal
\* step less than ACCELERATION * boost * 0.05 s above it.
C28_OvershootBelowOneIncrement ==
  Ticked =>
    /\ tick.forwardSpeed >= SpeedCap(tick)
          => /\ tick.acceleration <= 0
             /\ tick.acceleration = 0 => tick.velLong = tick.velCoast
             /\ SpeedAfterThrust(tick) <= Dot(tick.velCoast, Forward(tick.yaw))
    /\ (tick.keys.w /\ tick.forwardSpeed < SpeedCap(tick))
          => SpeedAfterThrust(tick) - SpeedCap(tick)
               < ACCELERATION * BoostFactor(tick.keys, tick.boost) * 5

\* a frame that started just below the cap and pushed the car past it
C28_Witness ==
  /\ Ticked
  /\ tick.keys.w
  /\ tick.forwardSpeed < SpeedCap(tick)
  /\ SpeedAfterThrust(tick) > SpeedCap(tick)

\* ------------------------------------------------------------------------
\* Properties of the steering angle over a session
\* ------------------------------------------------------------------------
\* C29: from the mounting of the car on, the smoothed steering angle stays
\* within -MAX_STEERING_ANGLE .. MAX_STEERING_ANGLE whatever keys are held and
\* whatever frames run, and starting, pausing, resuming or quitting a race
\* leaves it as it is.
C29_SteeringAngleBounded ==
  /\ [](Abs(steeringRef) <= MAX_STEERING_ANGLE)
  /\ [][op' \in {"startGame", "pauseGame", "resumeGame", "resetGame"}
          => steeringRef' = steeringRef]_vars

\* a new race begins with the wheel still turned from the race before
C29_Witness ==
  /\ op = "startGame"
  /\ nframes > 1
  /\ steeringRef > 2000

====
